---- MODULE Spec2Model ----
(***************************************************************************)
(* The commit handler of the compositor                                    *)
(* (src/src/wayland/handlers/compositor.rs): the initial-configure         *)
(* handshake of toplevels, popups and layer surfaces, the early GPU        *)
(* import, the window- and workspace-scope screencopy passes with their    *)
(* deferred (idle) render tasks, and the per-output render requests.       *)
(*                                                                         *)
(* One action models one whole handler: Commit is CompositorHandler::commit*)
(* from its first to its last line, RunIdle is one closure given to        *)
(* insert_idle.  The Shell, the screencopy protocol layer and              *)
(* Common::still_pending live outside the file; they are modelled from     *)
(* their documented interface.                                             *)
(***************************************************************************)
EXTENDS Integers, Sequences, FiniteSets, TLC

\* ------------------------------------------------------------- bounds
NumSurfaces == 1
NumOutputs == 2
NumWorkspaces == 2
NumSessions == 2

Surfaces == 1..NumSurfaces
Outputs == 1..NumOutputs
Workspaces == 1..NumWorkspaces
Sessions == 1..NumSessions

\* GPU render nodes; NoNode is target_node_for_output's None.
Nodes == {"n1", "n2"}
NoNode == "none"

Roles == {"toplevel", "layer", "popup"}

VARIABLES
    role,        \* role[s]: the surface's role, fixed at creation
    sent,        \* sent[s]: the role attributes' initial_configure_sent
    pendingS,    \* pendingS[s]: s is in shell.pending_windows / pending_layers
    space,       \* space[s]: handle of the workspace holding s (0: none)
    out,         \* out[s]: the output of s on that workspace / layer map (0: none)
    stackActive, \* stackActive[s]: s's window is the active window of its element
    active,      \* active[o]: handle of the active space of output o
    kms,         \* the backend is BackendData::Kms
    sessType,    \* sessType[k]: the session's SessionType (NoType: not created)
    wsPending,   \* wsPending[w]: workspace.pending_buffers
    outPending,  \* outPending[o]: the output's PendingScreencopyBuffers user data
    winPending,  \* winPending[s]: the window's PendingScreencopyBuffers
    idle,        \* the event loop's idle callbacks, oldest first
    nconf,       \* nconf[s]: initial configures sent / map_layer requests so far
    ev           \* what the last handler did

vars == <<role, sent, pendingS, space, out, stackActive, active, kms, sessType,
          wsPending, outPending, winPending, idle, nconf, ev>>

\* ------------------------------------------------------------- values
None == [some |-> FALSE, v |-> <<>>]
Some(x) == [some |-> TRUE, v |-> x]

NoType == [tag |-> "None", o |-> 0, w |-> 0, win |-> 0]
OutputType(o) == [tag |-> "Output", o |-> o, w |-> 0, win |-> 0]
WorkspaceType(o, w) == [tag |-> "Workspace", o |-> o, w |-> w, win |-> 0]
WindowType(s) == [tag |-> "Window", o |-> 0, w |-> 0, win |-> s]

SessionTypes ==
    {OutputType(o) : o \in Outputs}
    \cup {WorkspaceType(o, w) : o \in Outputs, w \in Workspaces}
    \cup {WindowType(s) : s \in Surfaces}

\* The BufferParams that accompany session k's capture request (1:1).
ParamsOf(k) == 100 + k
Pair(k) == [session |-> k, params |-> ParamsOf(k)]

RECURSIVE SetToSeq(_)
SetToSeq(S) ==
    IF S = {} THEN <<>>
    ELSE LET m == CHOOSE x \in S : \A y \in S : x <= y
         IN <<m>> \o SetToSeq(S \ {m})

Range(q) == {q[i] : i \in 1..Len(q)}

RemoveAt(q, i) == SubSeq(q, 1, i - 1) \o SubSeq(q, i + 1, Len(q))


\* ------------------------------------------------ the Shell's queries
\* Shell::active_space for every output (compositor.rs builds the list).
ActiveSpaces(act) == {<<o, act[o]>> : o \in Outputs}

\* Shell::visible_outputs_for_surface: a layer surface is visible on the
\* output whose layer map holds it; any other surface on every output whose
\* active space holds it.  Outputs are visited in ascending order.
VisibleOutputsForSurface(s, pend, sp, ou, act) ==
    IF role[s] = "layer"
    THEN IF pend[s] THEN <<>> ELSE <<ou[s]>>
    ELSE SetToSeq({o \in Outputs : sp[s] # 0 /\ act[o] = sp[s]})

\* Shell::workspaces_for_surface: for a layer surface every workspace with
\* the layer's output; otherwise the workspace holding the surface with the
\* output it occupies there.
WorkspacesForSurface(s, pend, sp, ou) ==
    IF role[s] = "layer"
    THEN IF pend[s] THEN <<>>
         ELSE [i \in 1..NumWorkspaces |-> [handle |-> i, output |-> ou[s]]]
    ELSE IF sp[s] # 0 THEN <<[handle |-> sp[s], output |-> ou[s]]>> ELSE <<>>

\* Shell::element_for_surface and element.active_window(): a mapped toplevel
\* belongs to an element, of which it is the active window or (in a stack)
\* not; a popup belongs to its parent's element, whose active window has
\* another surface.
ElementForSurface(s, pend, sp, stk) ==
    [found |-> (role[s] = "toplevel" /\ ~pend[s]) \/ (role[s] = "popup" /\ sp[s] # 0),
     activeIsSurface |-> role[s] = "toplevel" /\ ~pend[s] /\ stk[s]]

\* UserdataExt::pending_buffers of a window: hands out the window's pending
\* pairs and leaves its queue empty.
PendingBuffers(q) == [taken |-> q, left |-> <<>>]

\* ------------------------------------------------ configure tracking
\* Variant: the configure is sent whatever the flag says.
NeedsInitialConfigure_Always(initial_configure_sent) == TRUE

\* `if !initial_configure_sent` of the three ensure_initial_configure fns.
NeedsInitialConfigure(initial_configure_sent) == ~initial_configure_sent

\* Variant: the window is mapped as soon as it has a buffer.
ShouldMapWindow_BufferOnly(initial_configure_sent, has_buffer) == has_buffer

\* Variant: the window is mapped as soon as the configure was sent.
ShouldMapWindow_ConfigureOnly(initial_configure_sent, has_buffer) ==
    initial_configure_sent

\* commit's condition for Shell::map_window: the prior sent-state (what
\* toplevel_ensure_initial_configure returns) and a buffer on the surface.
ShouldMapWindow(initial_configure_sent, has_buffer) ==
    initial_configure_sent /\ has_buffer

\* Variant: the commit goes on after the map-on-demand.
LayerStops_Never(initial_configure_sent) == FALSE

\* Variant: the popup step returns like the layer step.
PopupStops_LikeLayer(initial_configure_sent) == ~initial_configure_sent

\* The popup step of commit never returns, whatever the flag was.
PopupStops(initial_configure_sent) == FALSE

\* Variant: every surface of a mapped element gets the window-scope pass.
WindowScopeApplies_AnySurface(found, activeIsSurface) == found

\* commit's condition for the window-scope pass: the surface belongs to a
\* mapped element and is the toplevel surface of its active window.
WindowScopeApplies(found, activeIsSurface) == found /\ activeIsSurface

\* Variant: the import looks at the shell before the mapping.
ImportShellState_BeforeMap(before, after) == before

\* early_import_surface is called after every map operation of the commit:
\* it sees the shell as the mapping left it.
ImportShellState(before, after) == after

\* Variant: the workspace-scope tasks are inserted before the window-scope ones.
SubmitOrder_WorkspaceFirst(windowTasks, workspaceTasks) == workspaceTasks \o windowTasks

\* The idle tasks of one commit in the order of their insert_idle calls: the
\* window-scope loop comes before the workspace-scope loop.
SubmitOrder(windowTasks, workspaceTasks) == windowTasks \o workspaceTasks

\* commit's condition for returning after the pending-layer step.
LayerStops(initial_configure_sent) == ~initial_configure_sent

\* ------------------------------------------------ early import
RECURSIVE EarlyImportLoop(_, _, _, _, _, _)
EarlyImportLoop(vis, i, isKms, target, import_nodes, calls) ==
    IF i > Len(vis) THEN calls
    ELSE LET output == vis[i] IN
         IF isKms /\ target[output] # NoNode /\ target[output] \notin import_nodes
         THEN EarlyImportLoop(vis, i + 1, isKms, target,
                              import_nodes \cup {target[output]},
                              Append(calls, [output |-> output, node |-> target[output]]))
         ELSE EarlyImportLoop(vis, i + 1, isKms, target, import_nodes, calls)

\* Variant: one import per visible output with a target node, no dedup.
EarlyImportSurface_PerOutput(vis, isKms, target) ==
    LET withNode == SelectSeq(vis, LAMBDA o : isKms /\ target[o] # NoNode)
    IN [i \in 1..Len(withNode) |-> [output |-> withNode[i], node |-> target[withNode[i]]]]

\* State::early_import_surface: the try_early_import calls of one commit.
EarlyImportSurface(vis, isKms, target) ==
    EarlyImportLoop(vis, 1, isKms, target, {}, <<>>)

\* ------------------------------------------------ workspace-scope pass
\* Variant: the scanned-pair test comes before the active-space test.
Classify_ScannedFirst(t, handle, output, active_spaces) ==
    IF handle = t.w /\ output = t.o THEN "defer"
    ELSE IF <<t.o, t.w>> \in active_spaces THEN "batch"
    ELSE "keep"

\* Variant: the entry is put at the front of scheduled_sessions.
Push_Front(v, e) == <<e>> \o v

\* Vec::push on scheduled_sessions.
Push(v, e) == Append(v, e)

\* Variant: an entry of an inactive space is never deferred.
Classify_NoDefer(t, handle, output, active_spaces) ==
    IF <<t.o, t.w>> \in active_spaces THEN "batch" ELSE "keep"

\* The three branches taken for an entry of type Workspace(o, w).
Classify(t, handle, output, active_spaces) ==
    IF <<t.o, t.w>> \in active_spaces THEN "batch"
    ELSE IF handle = t.w /\ output = t.o THEN "defer"
    ELSE "keep"

\* Variant: an Output session passes the scan's type test too.
IsWorkspaceSession_OrOutput(t) == t.tag \in {"Workspace", "Output"}

\* The scan's `if let SessionType::Workspace(o, w)`: every other type takes
\* the else branch, which is unreachable!().
IsWorkspaceSession(t) == t.tag = "Workspace"

RECURSIVE ScanLoop(_, _, _, _, _, _, _)
ScanLoop(q, i, handle, output, active_spaces, batched, deferred) ==
    IF i > Len(q)
    THEN [queue |-> q, batched |-> batched, deferred |-> deferred, panic |-> FALSE]
    ELSE LET t == sessType[q[i].session] IN
         IF IsWorkspaceSession(t)
         THEN LET c == Classify(t, handle, output, active_spaces) IN
              IF c = "batch"
              THEN ScanLoop(RemoveAt(q, i), i, handle, output, active_spaces,
                            Push(batched, q[i]), deferred)
              ELSE IF c = "defer"
              THEN ScanLoop(RemoveAt(q, i), i, handle, output, active_spaces,
                            batched, Append(deferred, q[i]))
              ELSE ScanLoop(q, i + 1, handle, output, active_spaces, batched, deferred)
         ELSE [queue |-> q, batched |-> batched, deferred |-> deferred, panic |-> TRUE]

WindowTask(e, window, before) ==
    [scope |-> "window", session |-> e.session, params |-> e.params,
     window |-> window, output |-> 0, handle |-> 0, before |-> before]

WorkspaceTask(e, output, handle, before) ==
    [scope |-> "workspace", session |-> e.session, params |-> e.params,
     window |-> 0, output |-> output, handle |-> handle, before |-> before]

\* The loop over workspaces_for_surface.  st carries the workspace queues,
\* scheduled_sessions, the idle tasks inserted and a record of each scan.
RECURSIVE PassLoop(_, _, _, _)
PassLoop(pairs, j, active_spaces, st) ==
    IF j > Len(pairs) \/ st.panic THEN st
    ELSE LET handle == pairs[j].handle
             output == pairs[j].output
             q == st.ws[handle]
         IN IF q = <<>> THEN PassLoop(pairs, j + 1, active_spaces, st)
            ELSE LET r == ScanLoop(q, 1, handle, output, active_spaces, <<>>, <<>>)
                 IN PassLoop(pairs, j + 1, active_spaces,
                      [ws |-> [st.ws EXCEPT ![handle] = r.queue],
                       scheduled |-> IF r.batched = <<>> THEN st.scheduled
                                     ELSE Some(st.scheduled.v \o r.batched),
                       tasks |-> st.tasks \o
                                 [n \in 1..Len(r.deferred) |->
                                    WorkspaceTask(r.deferred[n], output, handle, q)],
                       passes |-> Append(st.passes,
                                 [handle |-> handle, output |-> output, before |-> q,
                                  after |-> r.queue, batched |-> r.batched,
                                  deferred |-> r.deferred]),
                       panic |-> r.panic])

\* ------------------------------------------------ render requests
\* Variant: every scheduled session is handed to every output.
SessionMatchesOutput_All(t, output) == TRUE

\* The filter of the session list handed to schedule_render for `output`.
SessionMatchesOutput(t, output) ==
    t.tag \in {"Output", "Workspace"} /\ t.o = output

FilterSessions(sessions, output) ==
    SelectSeq(sessions, LAMBDA e : SessionMatchesOutput(sessType[e.session], output))

\* Variant: the output's pending buffers are copied, not drained.
DrainPending_Copy(p) == [taken |-> p.v, left |-> p]

\* `sessions.borrow_mut().drain(..)` on an output's PendingScreencopyBuffers:
\* everything is taken, the (now empty) store stays on the output.
DrainPending(p) == [taken |-> p.v, left |-> Some(<<>>)]

\* The loop over visible_outputs_for_surface that drains the output's
\* pending buffers and calls schedule_render.
RECURSIVE RenderLoop(_, _, _)
RenderLoop(vis, i, st) ==
    IF i > Len(vis) THEN st
    ELSE LET output == vis[i]
             sched == IF st.outp[output].some
                      THEN Some(st.scheduled.v \o DrainPending(st.outp[output]).taken)
                      ELSE st.scheduled
             outp == IF st.outp[output].some
                     THEN [st.outp EXCEPT ![output] = DrainPending(@).left]
                     ELSE st.outp
             req == [output |-> output,
                     sessions |-> IF sched.some
                                  THEN Some(FilterSessions(sched.v, output))
                                  ELSE None]
         IN RenderLoop(vis, i + 1,
                       [outp |-> outp, scheduled |-> sched,
                        renders |-> Append(st.renders, req)])


\* ------------------------------------------------ Shell mapping
\* Shell::map_window: the window leaves pending_windows and is mapped on
\* the active space of `output`.
MapWindow(pend, sp, ou, s, output, act) ==
    [pend |-> [pend EXCEPT ![s] = FALSE],
     sp |-> [sp EXCEPT ![s] = act[output]],
     ou |-> [ou EXCEPT ![s] = output]]

\* Shell::map_layer: the layer surface leaves pending_layers, is mapped on
\* its output's layer map, and the arrangement sends its configure.
MapLayer(pend, snt, s) ==
    [pend |-> [pend EXCEPT ![s] = FALSE],
     sent |-> [snt EXCEPT ![s] = TRUE]]

\* ------------------------------------------------ requeueing
\* Common::still_pending: the pair goes back to the tail of the pending
\* queue its session type names.
StillPending(qs, session, params) ==
    LET t == sessType[session]
        e == [session |-> session, params |-> params]
    IN CASE t.tag = "Output" ->
              [qs EXCEPT !.outp[t.o] = Some(@.v \o <<e>>)]
         [] t.tag = "Workspace" ->
              [qs EXCEPT !.ws[t.w] = Append(@, e)]
         [] t.tag = "Window" ->
              [qs EXCEPT !.win[t.win] = Append(@, e)]
         [] OTHER -> qs

\* ------------------------------------------------ deferred tasks
RenderOutcomes == {"NoDamage", "Success", "Failure"}

\* Variant: the task renders without looking at the session's liveness.
TaskProceeds_Always(session_alive) == TRUE

\* `if !session.alive() { return; }` at the head of both idle closures.
TaskProceeds(session_alive) == session_alive

\* Variant: a render without damage drops the pair.
TaskCall_DropOnNoDamage(outcome) ==
    CASE outcome = "NoDamage" -> "nothing"
      [] outcome = "Success" -> "nothing"
      [] outcome = "Failure" -> "failed"

\* Variant: a failed render puts the pair back like NoDamage does.
TaskCall_RequeueOnFailure(outcome) ==
    IF outcome = "Success" THEN "nothing" ELSE "still_pending"

\* The match on the render result in both idle closures: what the task
\* calls for Ok(false), Ok(true) and Err(..).
TaskCall(outcome) ==
    CASE outcome = "NoDamage" -> "still_pending"
      [] outcome = "Success" -> "nothing"
      [] outcome = "Failure" -> "failed"

\* ------------------------------------------------ initial state
NoEvent == [kind |-> "env"]

\* The compositor has not been aborted by a panic.
Running == ev.kind # "panic"

Init ==
    /\ role \in [Surfaces -> Roles]
    /\ sent = [s \in Surfaces |-> FALSE]
    /\ pendingS = [s \in Surfaces |-> role[s] \in {"toplevel", "layer"}]
    \* a popup sits on its parent's workspace and output, if the parent is mapped
    /\ space \in [Surfaces -> 0..NumWorkspaces]
    /\ out \in [Surfaces -> 0..NumOutputs]
    /\ \A s \in Surfaces :
          /\ role[s] = "toplevel" => space[s] = 0 /\ out[s] = 0
          /\ role[s] = "layer" => space[s] = 0 /\ out[s] # 0
          /\ role[s] = "popup" => (space[s] = 0 <=> out[s] = 0)
    /\ stackActive = [s \in Surfaces |-> TRUE]
    /\ active = [o \in Outputs |-> 1]
    /\ kms \in BOOLEAN
    /\ sessType = [k \in Sessions |-> NoType]
    /\ wsPending = [w \in Workspaces |-> <<>>]
    /\ outPending = [o \in Outputs |-> None]
    /\ winPending = [s \in Surfaces |-> <<>>]
    /\ idle = <<>>
    /\ nconf = [s \in Surfaces |-> 0]
    /\ ev = NoEvent

\* ------------------------------------------------ the environment
\* The Shell activates workspace w on output o.
ActivateSpace(o, w) ==
    /\ Running
    /\ active[o] # w
    /\ active' = [active EXCEPT ![o] = w]
    /\ ev' = NoEvent
    /\ UNCHANGED <<role, sent, pendingS, space, out, stackActive, kms, sessType,
                   wsPending, outPending, winPending, idle, nconf>>

\* The screencopy protocol layer queues a new session's capture request on
\* the pending queue of what it captures.  Sessions are created in order.
BufferAttached(k, t) ==
    /\ Running
    /\ sessType[k] = NoType
    /\ \A j \in 1..(k - 1) : sessType[j] # NoType
    /\ t.tag = "Window" => role[t.win] = "toplevel" /\ ~pendingS[t.win]
    /\ sessType' = [sessType EXCEPT ![k] = t]
    /\ wsPending' = IF t.tag = "Workspace"
                    THEN [wsPending EXCEPT ![t.w] = Append(@, Pair(k))]
                    ELSE wsPending
    /\ outPending' = IF t.tag = "Output"
                     THEN [outPending EXCEPT ![t.o] = Some(@.v \o <<Pair(k)>>)]
                     ELSE outPending
    /\ winPending' = IF t.tag = "Window"
                     THEN [winPending EXCEPT ![t.win] = Append(@, Pair(k))]
                     ELSE winPending
    /\ ev' = NoEvent
    /\ UNCHANGED <<role, sent, pendingS, space, out, stackActive, active, kms, idle, nconf>>

\* The Shell changes which window of the element holding s is its active
\* window (a stack of windows shows one of them).
SetActiveWindow(s) ==
    /\ Running
    /\ role[s] = "toplevel" /\ ~pendingS[s]
    /\ stackActive' = [stackActive EXCEPT ![s] = ~@]
    /\ ev' = NoEvent
    /\ UNCHANGED <<role, sent, pendingS, space, out, active, kms, sessType,
                   wsPending, outPending, winPending, idle, nconf>>

\* ------------------------------------------------ the commit handler
Bump(n) == IF n < 2 THEN n + 1 ELSE n

\* CompositorHandler::commit(surface).  The buffer is looked at only for a
\* pending toplevel, the seat's active output only when a window is mapped,
\* the outputs' target nodes only on a KMS backend: each is drawn where the
\* handler reads it.
Commit(s) ==
    LET prior == sent[s]
        pw == role[s] = "toplevel" /\ pendingS[s]
        pl == role[s] = "layer" /\ pendingS[s]
        pp == role[s] = "popup"
    IN
    \E buf \in (IF pw THEN BOOLEAN ELSE {TRUE}) :
    LET cfgT == pw /\ NeedsInitialConfigure(prior)
        mapW == pw /\ ShouldMapWindow(prior, buf)
        stopT == pw /\ ~mapW
        mapL == ~stopT /\ pl /\ NeedsInitialConfigure(prior)
        stopL == ~stopT /\ pl /\ LayerStops(prior)
        cfgP == ~stopT /\ ~stopL /\ pp /\ NeedsInitialConfigure(prior)
        stopP == ~stopT /\ ~stopL /\ pp /\ PopupStops(prior)
        stopped == stopT \/ stopL \/ stopP
    IN
    \E seatOut \in (IF mapW THEN Outputs ELSE {1}) :
    LET mw == IF mapW THEN MapWindow(pendingS, space, out, s, seatOut, active)
              ELSE [pend |-> pendingS, sp |-> space, ou |-> out]
        sentT == [sent EXCEPT ![s] = @ \/ cfgT \/ cfgP]
        ml == IF mapL THEN MapLayer(mw.pend, sentT, s)
              ELSE [pend |-> mw.pend, sent |-> sentT]
        pend1 == ml.pend
        sent1 == ml.sent
        sp1 == mw.sp
        ou1 == mw.ou
        nconf1 == IF cfgT \/ mapL \/ cfgP THEN [nconf EXCEPT ![s] = Bump(@)] ELSE nconf
        stk1 == IF mapW THEN [stackActive EXCEPT ![s] = TRUE] ELSE stackActive
        el == ElementForSurface(s, pend1, sp1, stk1)
        pb == IF WindowScopeApplies(el.found, el.activeIsSurface)
              THEN PendingBuffers(winPending[s])
              ELSE [taken |-> <<>>, left |-> winPending[s]]
        wtasks == [n \in 1..Len(pb.taken) |-> WindowTask(pb.taken[n], s, winPending[s])]
        shI == ImportShellState([pend |-> pendingS, sp |-> space, ou |-> out],
                                [pend |-> pend1, sp |-> sp1, ou |-> ou1])
        visI == VisibleOutputsForSurface(s, shI.pend, shI.sp, shI.ou, active)
        vis == VisibleOutputsForSurface(s, pend1, sp1, ou1, active)
        act == ActiveSpaces(active)
        pr == PassLoop(WorkspacesForSurface(s, pend1, sp1, ou1), 1, act,
                       [ws |-> wsPending, scheduled |-> None, tasks |-> <<>>,
                        passes |-> <<>>, panic |-> FALSE])
        tasks == SubmitOrder(wtasks, pr.tasks)
        rr == RenderLoop(vis, 1, [outp |-> outPending, scheduled |-> pr.scheduled,
                                  renders |-> <<>>])
        log == [kind |-> "commit", surface |-> s, role |-> role[s],
                pendingBefore |-> pendingS[s], sentBefore |-> prior,
                buffer |-> buf,
                configure |-> cfgT \/ cfgP,
                mapWindow |-> IF mapW THEN Some(seatOut) ELSE None,
                mapLayer |-> mapL]
    IN
    /\ Running
    /\ role' = role /\ kms' = kms /\ active' = active
    /\ sessType' = sessType
    /\ stackActive' = stk1
    /\ sent' = sent1
    /\ pendingS' = pend1
    /\ space' = sp1
    /\ out' = ou1
    /\ nconf' = nconf1
    /\ IF stopped
       THEN /\ ev' = log @@ [reached |-> IF stopT THEN "toplevel_return"
                                         ELSE IF stopL THEN "layer_return"
                                         ELSE "popup_return",
                             visible |-> <<>>, import_visible |-> <<>>,
                             imports |-> <<>>, targets |-> <<>>,
                             popups_commit |-> FALSE,
                             tasks |-> <<>>, passes |-> <<>>, active_spaces |-> {},
                             scheduled |-> None, renders |-> <<>>]
            /\ UNCHANGED <<wsPending, outPending, winPending, idle>>
       ELSE IF pr.panic
       THEN \* unreachable!() aborts the compositor in the middle of the scan
            /\ ev' = [kind |-> "panic", surface |-> s, passes |-> pr.passes]
            /\ UNCHANGED <<wsPending, outPending, winPending, idle>>
       ELSE \E tg \in (IF kms THEN [Range(visI) -> Nodes \cup {NoNode}]
                              ELSE {[o \in Range(visI) |-> NoNode]}) :
            /\ winPending' = [winPending EXCEPT ![s] = pb.left]
            /\ wsPending' = pr.ws
            /\ outPending' = rr.outp
            /\ idle' = idle \o tasks
            /\ ev' = log @@ [reached |-> "end",
                             visible |-> vis,
                             import_visible |-> visI,
                             targets |-> [i \in 1..Len(visI) |-> tg[visI[i]]],
                             imports |-> EarlyImportSurface(visI, kms, tg),
                             popups_commit |-> TRUE,
                             tasks |-> tasks, passes |-> pr.passes,
                             active_spaces |-> act,
                             scheduled |-> rr.scheduled, renders |-> rr.renders]

\* ------------------------------------------------ a deferred task runs
\* The event loop runs its oldest idle callback: the closure of the window
\* scope or of the workspace scope.  Whether the session is still alive is
\* the client's doing (it may have destroyed the session since the commit),
\* the render's result the renderer's: both are drawn where the task reads
\* them.
RunIdle ==
    /\ Running
    /\ idle # <<>>
    /\ LET t == Head(idle)
           qs == [ws |-> wsPending, outp |-> outPending, win |-> winPending]
       IN \E session_alive \in BOOLEAN :
          \E outcome \in (IF TaskProceeds(session_alive) THEN RenderOutcomes
                          ELSE {"NotRendered"}) :
          LET call == IF outcome = "NotRendered" THEN "nothing" ELSE TaskCall(outcome)
              qs1 == IF call = "still_pending"
                     THEN StillPending(qs, t.session, t.params) ELSE qs
          IN /\ idle' = Tail(idle)
             /\ wsPending' = qs1.ws
             /\ outPending' = qs1.outp
             /\ winPending' = qs1.win
             /\ ev' = [kind |-> "task", task |-> t, alive |-> session_alive,
                       rendered |-> outcome # "NotRendered", outcome |-> outcome,
                       still_pending |-> IF call = "still_pending"
                                         THEN <<[session |-> t.session, params |-> t.params]>>
                                         ELSE <<>>,
                       failed |-> IF call = "failed" THEN <<t.session>> ELSE <<>>]
    /\ UNCHANGED <<role, sent, pendingS, space, out, stackActive, active, kms,
                   sessType, nconf>>

Next ==
    \/ \E s \in Surfaces : Commit(s)
    \/ RunIdle
    \/ \E o \in Outputs, w \in Workspaces : ActivateSpace(o, w)
    \/ \E k \in Sessions, t \in SessionTypes : BufferAttached(k, t)
    \/ \E s \in Surfaces : SetActiveWindow(s)

Spec == Init /\ [][Next]_vars



\* The event loop as one that runs every idle task before it dispatches the
\* next event: a handler or a Shell event is taken only with the idle queue
\* empty.
NextLoop ==
    \/ \E s \in Surfaces : idle = <<>> /\ Commit(s)
    \/ RunIdle
    \/ \E o \in Outputs, w \in Workspaces : idle = <<>> /\ ActivateSpace(o, w)
    \/ \E k \in Sessions, t \in SessionTypes : idle = <<>> /\ BufferAttached(k, t)
    \/ \E s \in Surfaces : idle = <<>> /\ SetActiveWindow(s)

SpecLoop == Init /\ [][NextLoop]_vars


\* ------------------------------------------------ the scan on any queue
\* The pending queues as the scan's input, whatever put the entries there:
\* a workspace queue may hold sessions of every type.  Every surface is
\* mapped, so that a commit reaches the workspace-scope pass.
PairSeqs ==
    {q \in UNION {[1..n -> {Pair(k) : k \in Sessions}] : n \in 0..NumSessions} :
        \A i, j \in 1..Len(q) : i # j => q[i] # q[j]}

InitScan ==
    /\ role \in [Surfaces -> {"toplevel", "layer"}]
    /\ sent = [s \in Surfaces |-> TRUE]
    /\ pendingS = [s \in Surfaces |-> FALSE]
    /\ space \in [Surfaces -> 0..NumWorkspaces]
    /\ out \in [Surfaces -> Outputs]
    /\ \A s \in Surfaces : role[s] = "layer" <=> space[s] = 0
    /\ stackActive = [s \in Surfaces |-> TRUE]
    /\ active = [o \in Outputs |-> 1]
    /\ kms = FALSE
    /\ sessType \in [Sessions -> SessionTypes \cup {NoType}]
    /\ wsPending \in [Workspaces -> PairSeqs]
    /\ \A w1, w2 \in Workspaces :
          w1 # w2 => Range(wsPending[w1]) \cap Range(wsPending[w2]) = {}
    \* the first sessions exist and wait in a workspace queue, the others do
    \* not exist yet
    /\ \A k \in Sessions :
          /\ sessType[k] # NoType <=> \E w \in Workspaces : Pair(k) \in Range(wsPending[w])
          /\ sessType[k] # NoType => \A j \in 1..(k - 1) : sessType[j] # NoType
    /\ outPending = [o \in Outputs |-> None]
    /\ winPending = [s \in Surfaces |-> <<>>]
    /\ idle = <<>>
    /\ nconf = [s \in Surfaces |-> 1]
    /\ ev = NoEvent

SpecScan == InitScan /\ [][Next]_vars

\* ================================================= properties
IsCommit == ev.kind = "commit"
IsTask == ev.kind = "task"

\* The commit just handled was of a pending toplevel.
PendingToplevelCommit == IsCommit /\ ev.role = "toplevel" /\ ev.pendingBefore
\* The commit just handled was of a pending layer surface.
PendingLayerCommit == IsCommit /\ ev.role = "layer" /\ ev.pendingBefore

\* C1: a commit of a pending toplevel calls Shell::map_window (and the window
\* leaves pending_windows for the active space of the seat's output) if and
\* only if initial_configure_sent was true before the commit and a buffer is
\* attached; the commit that first sends the configure never maps.
C1_MapIffConfiguredAndBuffer ==
    PendingToplevelCommit =>
        /\ ev.mapWindow.some <=> (ev.sentBefore /\ ev.buffer)
        /\ ~pendingS[ev.surface] <=> (ev.sentBefore /\ ev.buffer)
        /\ ev.mapWindow.some =>
              /\ space[ev.surface] = active[ev.mapWindow.v]
              /\ out[ev.surface] = ev.mapWindow.v
        /\ ~ev.sentBefore => (~ev.mapWindow.some /\ pendingS[ev.surface] /\ ev.configure)

C1_Witness ==
    PendingToplevelCommit /\ ev.sentBefore /\ ev.buffer /\ ev.mapWindow.some

\* C2: over any sequence of commits the initial configure of a surface is sent
\* (for a layer surface: its map-on-demand is requested) at most once;
\* initial_configure_sent never goes back from true to false, and a commit that
\* finds it true sends no initial configure.
C2_ConfigureAtMostOnce ==
    /\ [](\A s \in Surfaces : nconf[s] <= 1 /\ (nconf[s] = 1 => sent[s]))
    /\ [](IsCommit /\ ev.sentBefore => ~ev.configure /\ ~ev.mapLayer)
    /\ [][\A s \in Surfaces : sent[s] => sent'[s]]_vars

C2_Witness ==
    IsCommit /\ ev.sentBefore /\ nconf[ev.surface] = 1 /\ ev.pendingBefore

\* C3: a commit of a pending toplevel whose configure was not yet sent, or that
\* has no buffer, returns after the toplevel step: no early import, no deferred
\* task, no render request, and every pending queue and the idle list are as
\* before the commit.
C3_UnmappedToplevelStops ==
    [][(PendingToplevelCommit' /\ ~(ev'.sentBefore /\ ev'.buffer)) =>
          /\ ev'.reached = "toplevel_return"
          /\ ev'.imports = <<>> /\ ev'.tasks = <<>> /\ ev'.passes = <<>>
          /\ ev'.renders = <<>>
          /\ UNCHANGED <<wsPending, outPending, winPending, idle>>]_vars

C3_Witness ==
    /\ PendingToplevelCommit /\ ev.sentBefore /\ ~ev.buffer
    /\ ev.reached = "toplevel_return"
    /\ \E o \in Outputs : outPending[o].some /\ outPending[o].v # <<>>
    /\ \E w \in Workspaces : wsPending[w] # <<>>

\* C4: a commit of a pending layer surface whose configure was not sent makes
\* the core send no configure itself, request Shell::map_layer once and return:
\* no import, no task, no render request, queues as before.  A layer commit
\* that finds the configure sent requests no map_layer and runs to the end.
C4_LayerMapOnDemand ==
    [][(IsCommit' /\ ev'.role = "layer") =>
          IF ev'.pendingBefore /\ ~ev'.sentBefore
          THEN /\ ~ev'.configure
               /\ ev'.mapLayer
               /\ nconf'[ev'.surface] = nconf[ev'.surface] + 1
               /\ ev'.reached = "layer_return"
               /\ ev'.imports = <<>> /\ ev'.tasks = <<>> /\ ev'.passes = <<>>
               /\ ev'.renders = <<>>
               /\ UNCHANGED <<wsPending, outPending, winPending, idle>>
          ELSE /\ ~ev'.mapLayer
               /\ ev'.reached = "end"
               /\ nconf'[ev'.surface] = nconf[ev'.surface]]_vars

C4_Witness ==
    /\ PendingLayerCommit /\ ~ev.sentBefore /\ ev.mapLayer
    /\ ev.reached = "layer_return"
    /\ \E o \in Outputs : outPending[o].some /\ outPending[o].v # <<>>

\* C5: in a commit that reaches the import, try_early_import is called once
\* for each distinct render node among the target nodes of the visible
\* outputs (outputs without a target node skipped), and never on a backend
\* that is not KMS; what an earlier commit imported plays no part.
C5_ImportOncePerNode ==
    (IsCommit /\ ev.reached = "end") =>
        LET nodes == {ev.targets[i] : i \in 1..Len(ev.targets)} \ {NoNode}
            imported == {ev.imports[i].node : i \in 1..Len(ev.imports)}
        IN /\ Len(ev.targets) = Len(ev.visible)
           /\ kms => (Len(ev.imports) = Cardinality(nodes) /\ imported = nodes)
           /\ ~kms => ev.imports = <<>>
           /\ \A i \in 1..Len(ev.imports) :
                 \E j \in 1..Len(ev.visible) :
                    ev.visible[j] = ev.imports[i].output /\ ev.targets[j] = ev.imports[i].node

C5_Witness ==
    /\ IsCommit /\ ev.reached = "end" /\ kms
    /\ Len(ev.visible) = 2
    /\ ev.targets[1] = ev.targets[2] /\ ev.targets[1] # NoNode
    /\ Len(ev.imports) = 1


\* The output a session type names (0 for a window session).
SessionOutput(e) ==
    LET t == sessType[e.session]
    IN IF t.tag \in {"Output", "Workspace"} THEN t.o ELSE 0

NoDuplicates(q) == \A i, j \in 1..Len(q) : i # j => q[i] # q[j]

RECURSIVE Flatten(_)
Flatten(qq) == IF qq = <<>> THEN <<>> ELSE Head(qq) \o Flatten(Tail(qq))

\* C6: in the scan of a workspace's pending queue for the pair
\* (handle, output), an entry of type Workspace(o, w) goes to the render
\* batch iff w is the active space of o; otherwise it leaves the queue for a
\* deferred render task iff (o, w) is the scanned pair; otherwise it stays.
\* The active-space test comes first.
C6_WorkspaceClassification ==
    (IsCommit /\ ev.reached = "end") =>
        /\ \A n \in 1..Len(ev.passes) :
             LET p == ev.passes[n] IN
             /\ \A i \in 1..Len(p.before) :
                  LET e == p.before[i]
                      t == sessType[e.session]
                      isActive == active[t.o] = t.w
                      isScanned == t.o = p.output /\ t.w = p.handle
                      hasTask == \E j \in 1..Len(ev.tasks) :
                                    /\ ev.tasks[j].scope = "workspace"
                                    /\ ev.tasks[j].session = e.session
                                    /\ ev.tasks[j].params = e.params
                                    /\ ev.tasks[j].output = p.output
                                    /\ ev.tasks[j].handle = p.handle
                      inIdle == \E j \in 1..Len(idle) :
                                    idle[j].scope = "workspace" /\ idle[j].session = e.session
                  IN /\ t.tag = "Workspace"
                     /\ e \in Range(p.batched) <=> isActive
                     /\ e \in Range(p.batched) => e \in Range(ev.scheduled.v)
                     /\ e \in Range(p.deferred) <=> (~isActive /\ isScanned)
                     /\ hasTask <=> (~isActive /\ isScanned)
                     /\ hasTask => inIdle
                     /\ e \in Range(p.after) <=> (~isActive /\ ~isScanned)
                     /\ e \in Range(wsPending[p.handle]) <=> (~isActive /\ ~isScanned)

C6_Witness ==
    /\ IsCommit /\ ev.reached = "end"
    /\ \E n \in 1..Len(ev.passes) :
          LET p == ev.passes[n] IN
          /\ Len(p.before) = 2
          /\ \E i \in 1..2 :
                LET t == sessType[p.before[i].session]
                IN /\ active[t.o] = t.w
                   /\ t.o = p.output /\ t.w = p.handle
                   /\ p.before[i] \in Range(p.batched)
          /\ Len(p.after) = 1

\* The queue a deferred task's pair was taken from.
OriginQueue(task) ==
    IF task.scope = "window" THEN winPending[task.window] ELSE wsPending[task.handle]

\* C7: a deferred task whose session is alive and whose render reports
\* NoDamage hands the same (session, params) to still_pending, which puts it
\* back on the queue it was taken from; if nothing else touched that queue
\* since the commit, the queue again holds what it held before the commit,
\* and as many entries.
C7_NoDamageRequeues ==
    (IsTask /\ ev.alive /\ ev.outcome = "NoDamage") =>
        LET t == ev.task
            pair == Pair(t.session)
            q == OriginQueue(t)
        IN /\ ev.rendered
           /\ ev.still_pending = <<pair>>
           /\ ev.failed = <<>>
           /\ pair \in Range(t.before)
           /\ q # <<>> /\ q[Len(q)] = pair
           /\ Len(SelectSeq(q, LAMBDA x : x = pair)) = 1
           /\ (Range(q) \ {pair} = Range(t.before) \ {pair}) =>
                 (Range(q) = Range(t.before) /\ Len(q) = Len(t.before))

C7_Witness ==
    /\ IsTask /\ ev.alive /\ ev.outcome = "NoDamage"
    /\ ev.task.scope = "workspace"
    /\ Len(ev.task.before) = 2
    /\ Range(OriginQueue(ev.task)) = Range(ev.task.before)
    /\ OriginQueue(ev.task) # ev.task.before

\* C8: a deferred task that finds its session dead does nothing: no render,
\* no session.failed, no still_pending, and every pending queue is as it was.
C8_DeadSessionNoOp ==
    [][(IsTask' /\ ~ev'.alive) =>
          /\ ~ev'.rendered
          /\ ev'.failed = <<>>
          /\ ev'.still_pending = <<>>
          /\ UNCHANGED <<wsPending, outPending, winPending>>
          /\ idle' = Tail(idle)]_vars

C8_Witness ==
    IsTask /\ ~ev.alive /\ ev.task.scope = "workspace"


\* What a commit's render requests look like, clause by clause.
\* Every visible output gets exactly one schedule_render, in visiting order.
OneRequestPerVisibleOutput(e) ==
    /\ Len(e.renders) = Len(e.visible)
    /\ NoDuplicates(e.visible)
    /\ \A i \in 1..Len(e.visible) : e.renders[i].output = e.visible[i]

\* Every session handed to an output names that output in its session type.
OnlySessionsOfOutput(e) ==
    \A i \in 1..Len(e.renders) :
       \A x \in Range(e.renders[i].sessions.v) : SessionOutput(x) = e.renders[i].output

\* C9 as stated: one schedule_render per visible output, carrying only
\* sessions of that output, and no session list at all when no session was
\* batched or drained in the commit.
C9_AsStated ==
    (IsCommit /\ ev.reached = "end") =>
        /\ OneRequestPerVisibleOutput(ev)
        /\ OnlySessionsOfOutput(ev)
        /\ ev.scheduled.v = <<>> =>
              \A i \in 1..Len(ev.renders) : ~ev.renders[i].sessions.some

\* C9 (amended): one schedule_render per visible output; the list handed to
\* output X holds exactly the batched entries and the entries drained from
\* the pending stores of the outputs visited so far whose session type names
\* X.  A list is handed over iff an entry was batched or an output visited so
\* far has a pending store, be it empty: with nothing batched or drained the
\* request carries no list or an empty one.
C9_RenderPerVisibleOutput ==
    [][(IsCommit' /\ ev'.reached = "end") =>
          LET batch == Flatten([n \in 1..Len(ev'.passes) |-> ev'.passes[n].batched])
          IN /\ OneRequestPerVisibleOutput(ev')
             /\ OnlySessionsOfOutput(ev')
             /\ \A i \in 1..Len(ev'.visible) :
                   LET X == ev'.visible[i]
                       req == ev'.renders[i]
                       visited == {ev'.visible[j] : j \in 1..i}
                       drained == UNION {Range(outPending[o].v) : o \in visited}
                       expected == {x \in Range(batch) \cup drained : SessionOutput(x) = X}
                   IN /\ req.sessions.some <=>
                            (batch # <<>> \/ \E o \in visited : outPending[o].some)
                      /\ Range(req.sessions.v) = expected
                      /\ Len(req.sessions.v) = Cardinality(expected)
                      /\ outPending[X].some => outPending'[X] = Some(<<>>)
                      /\ ~outPending[X].some => outPending'[X] = outPending[X]
             /\ ev'.scheduled.v = <<>> =>
                   \A i \in 1..Len(ev'.renders) : ev'.renders[i].sessions.v = <<>>]_vars

C9_Witness ==
    /\ IsCommit /\ ev.reached = "end"
    /\ Len(ev.renders) = 2
    /\ ev.renders[1].sessions.v # <<>>
    /\ ev.renders[2].sessions.v # <<>>
    /\ Len(ev.scheduled.v) = 2

\* Every (session, params) pair held somewhere: in the pending queues, in the
\* render batch of the commit just handled, in the idle tasks not yet run.
HeldPairs ==
    Flatten([w \in 1..NumWorkspaces |-> wsPending[w]])
    \o Flatten([o \in 1..NumOutputs |-> outPending[o].v])
    \o Flatten([s \in 1..NumSurfaces |-> winPending[s]])
    \o (IF IsCommit THEN ev.scheduled.v ELSE <<>>)
    \o [n \in 1..Len(idle) |-> [session |-> idle[n].session, params |-> idle[n].params]]

\* C10: at every point a (session, params) pair is held in at most one place
\* among the workspace, output and window pending queues, the render batch
\* of the current commit and the deferred tasks not yet run.
C10_NoDuplicatePair == NoDuplicates(HeldPairs)

C10_Witness ==
    /\ IsCommit /\ ev.scheduled.v # <<>>
    /\ idle # <<>>
    /\ Len(HeldPairs) = NumSessions

\* The window-scope tasks of a list come before its workspace-scope tasks.
WindowTasksFirst(tasks) ==
    \A i, j \in 1..Len(tasks) :
        (tasks[i].scope = "window" /\ tasks[j].scope = "workspace") => i < j

IsPanic == ev.kind = "panic"

\* The queue the last pass of a handler's workspace-scope loop scanned.
LastScanned(e) == e.passes[Len(e.passes)].before

C13_ImportSeesMappedSurface ==
    /\ (IsCommit /\ ev.reached = "end") =>
          /\ ev.import_visible =
                VisibleOutputsForSurface(ev.surface, pendingS, space, out, active)
          /\ ev.import_visible = ev.visible
          /\ \A i \in 1..Len(ev.imports) : ev.imports[i].output \in Range(ev.visible)
          /\ {ev.renders[i].output : i \in 1..Len(ev.renders)} = Range(ev.visible)
          /\ ev.mapWindow.some =>
                /\ ev.mapWindow.v \in Range(ev.import_visible)
                /\ \E i \in 1..Len(ev.renders) : ev.renders[i].output = ev.mapWindow.v
                /\ \A i \in 1..Len(ev.targets) :
                      (kms /\ ev.import_visible[i] = ev.mapWindow.v /\ ev.targets[i] # NoNode)
                      => \E n \in 1..Len(ev.imports) : ev.imports[n].node = ev.targets[i]
    /\ (IsCommit /\ ev.mapLayer) => (ev.reached = "layer_return" /\ ev.imports = <<>>)

C13_Witness ==
    /\ IsCommit /\ ev.reached = "end" /\ ev.mapWindow.some /\ kms
    /\ \E n \in 1..Len(ev.imports) : ev.imports[n].output = ev.mapWindow.v
    /\ \E i \in 1..Len(ev.renders) : ev.renders[i].output = ev.mapWindow.v

\* The pairs waiting in a pending queue of a workspace, an output or a window.
QueuedPairs ==
    UNION {Range(wsPending[w]) : w \in Workspaces}
    \cup UNION {Range(outPending[o].v) : o \in Outputs}
    \cup UNION {Range(winPending[s]) : s \in Surfaces}

\* C14: a deferred task whose session is alive ends in one of three ways.
\* NoDamage: the pair is handed to still_pending, the session is not failed.
\* Success: neither call is made.  Failure: session.failed is called once,
\* the pair is not requeued and the compositor is not aborted: Commit, which
\* waits for nothing but Running, stays enabled.
\* After Success and Failure the pair waits in no pending queue.
C14_TaskOutcomes ==
    (IsTask /\ ev.alive) =>
        LET pair == [session |-> ev.task.session, params |-> ev.task.params]
        IN /\ ev.rendered /\ ev.outcome \in RenderOutcomes
           /\ ev.outcome = "NoDamage" =>
                 /\ ev.still_pending = <<pair>> /\ ev.failed = <<>>
                 /\ pair \in QueuedPairs
           /\ ev.outcome = "Success" =>
                 /\ ev.still_pending = <<>> /\ ev.failed = <<>>
                 /\ pair \notin QueuedPairs
           /\ ev.outcome = "Failure" =>
                 /\ ev.still_pending = <<>> /\ ev.failed = <<ev.task.session>>
                 /\ pair \notin QueuedPairs
                 /\ Running

C14_Witness ==
    /\ IsTask /\ ev.alive /\ ev.outcome = "Failure"
    /\ ev.failed = <<ev.task.session>>
    /\ QueuedPairs # {}

\* C15: a commit of a popup never stops at the popup step.  If the initial
\* configure was not sent it is sent now, and, sent just now or long before,
\* the same commit goes on to the early import, the refresh of the popup
\* bookkeeping, the workspace-scope pass over every non-empty queue of the
\* popup's workspaces and one render request per visible output.
C15_PopupCommitContinues ==
    [][(IsCommit' /\ ev'.role = "popup") =>
          LET s == ev'.surface
              nodes == {ev'.targets[i] : i \in 1..Len(ev'.targets)} \ {NoNode}
              pairs == WorkspacesForSurface(s, pendingS, space, out)
          IN /\ ev'.reached = "end"
             /\ ev'.configure <=> ~sent[s]
             /\ sent'[s]
             /\ ev'.popups_commit
             /\ ev'.visible = VisibleOutputsForSurface(s, pendingS, space, out, active)
             /\ ev'.import_visible = ev'.visible
             /\ kms => {ev'.imports[i].node : i \in 1..Len(ev'.imports)} = nodes
             /\ \A j \in 1..Len(pairs) :
                   wsPending[pairs[j].handle] # <<>> =>
                      \E n \in 1..Len(ev'.passes) :
                         /\ ev'.passes[n].handle = pairs[j].handle
                         /\ ev'.passes[n].output = pairs[j].output
                         /\ ev'.passes[n].before = wsPending[pairs[j].handle]
             /\ [i \in 1..Len(ev'.renders) |-> ev'.renders[i].output] = ev'.visible]_vars

C15_Witness ==
    /\ IsCommit /\ ev.role = "popup" /\ ~ev.sentBefore /\ ev.configure
    /\ ev.reached = "end" /\ ev.popups_commit
    /\ ev.imports # <<>> /\ ev.passes # <<>> /\ ev.renders # <<>>

\* The window-scope tasks of a task list.
WindowTasks(tasks) == SelectSeq(tasks, LAMBDA x : x.scope = "window")

\* C16: a commit submits window-scope tasks only for a surface that is the
\* toplevel surface of the active window of a mapped element, and then one
\* task for each pair pending on that window, in queue order, which leaves
\* the window's queue empty.  A commit of any other surface (a window that
\* is not its element's active one, a popup, a surface not mapped) submits no
\* window-scope task and leaves the window's queue as it was.
C16_WindowTasksOnlyForActiveWindow ==
    [][IsCommit' =>
          LET s == ev'.surface
              wt == WindowTasks(ev'.tasks)
              el == ElementForSurface(s, pendingS', space', stackActive')
          IN IF ev'.reached = "end" /\ el.found /\ el.activeIsSurface
             THEN /\ [i \in 1..Len(wt) |-> [session |-> wt[i].session,
                                            params |-> wt[i].params]] = winPending[s]
                  /\ \A i \in 1..Len(wt) : wt[i].window = s
                  /\ winPending'[s] = <<>>
             ELSE /\ wt = <<>>
                  /\ winPending'[s] = winPending[s]]_vars

C16_Witness ==
    /\ IsCommit /\ ev.reached = "end"
    /\ Len(WindowTasks(ev.tasks)) = 2
    /\ ev.role = "toplevel" /\ stackActive[ev.surface]

\* The type of the session of a queue entry.
TypeOf(e) == sessType[e.session]

\* C17: a scan of a workspace queue is a stable partition.  What stays is the
\* entries that are neither of an active space nor of the scanned pair, what
\* is batched the entries of an active space, what is deferred the remaining
\* entries of the scanned pair; each part keeps the entries unchanged and in
\* the order of the queue; the tasks are submitted in that order and the
\* batch starts with the batched entries in that order.
C17_ScanIsStablePartition ==
    (IsCommit /\ ev.reached = "end") =>
        /\ \A n \in 1..Len(ev.passes) :
              LET p == ev.passes[n]
                  Act(e) == <<TypeOf(e).o, TypeOf(e).w>> \in ev.active_spaces
                  Scanned(e) == TypeOf(e).o = p.output /\ TypeOf(e).w = p.handle
              IN /\ p.after = SelectSeq(p.before, LAMBDA e : ~Act(e) /\ ~Scanned(e))
                 /\ p.batched = SelectSeq(p.before, LAMBDA e : Act(e))
                 /\ p.deferred = SelectSeq(p.before, LAMBDA e : ~Act(e) /\ Scanned(e))
        /\ LET wsTasks == SelectSeq(ev.tasks, LAMBDA x : x.scope = "workspace")
           IN [i \in 1..Len(wsTasks) |-> [session |-> wsTasks[i].session,
                                          params |-> wsTasks[i].params]]
              = Flatten([n \in 1..Len(ev.passes) |-> ev.passes[n].deferred])
        /\ LET b == Flatten([n \in 1..Len(ev.passes) |-> ev.passes[n].batched])
           IN /\ Len(ev.scheduled.v) >= Len(b)
              /\ SubSeq(ev.scheduled.v, 1, Len(b)) = b

C17_Witness ==
    /\ IsCommit /\ ev.reached = "end"
    /\ \E n \in 1..Len(ev.passes) :
          /\ Len(ev.passes[n].before) = 2
          /\ Len(ev.passes[n].batched) = 2

\* The number of render requests of a commit that carry the pair e.
RequestsCarrying(e) ==
    Cardinality({i \in 1..Len(ev.renders) : e \in Range(ev.renders[i].sessions.v)})

\* C18: no capture is lost or duplicated by a commit: every pair the commit
\* took out of a workspace queue or drained from an output's queue is handed
\* on within that commit, either with the render request of exactly one
\* output or to exactly one deferred task; a pair batched because its
\* (output, workspace) is active is on a render request.
C18_NoCaptureLost ==
    (IsCommit /\ ev.reached = "end") =>
        /\ \A i \in 1..Len(ev.scheduled.v) : RequestsCarrying(ev.scheduled.v[i]) = 1
        /\ \A n \in 1..Len(ev.passes) :
              /\ \A i \in 1..Len(ev.passes[n].batched) :
                    /\ ev.passes[n].batched[i] \in Range(ev.scheduled.v)
                    /\ \A k \in 1..Len(ev.tasks) :
                          ev.tasks[k].session # ev.passes[n].batched[i].session
              /\ \A i \in 1..Len(ev.passes[n].deferred) :
                    /\ Cardinality({k \in 1..Len(ev.tasks) :
                          ev.tasks[k].session = ev.passes[n].deferred[i].session}) = 1
                    /\ RequestsCarrying(ev.passes[n].deferred[i]) = 0

\* C19: when a commit has scanned the queue of workspace `handle` for the
\* pair (handle, output), that queue holds no entry of type
\* Workspace(output, handle) any more: each was batched, if the space is
\* active, or deferred to a task.
C19_ScannedPairLeavesQueue ==
    (IsCommit /\ ev.reached = "end") =>
        \A n \in 1..Len(ev.passes) :
           LET p == ev.passes[n]
               Scanned(e) == sessType[e.session] = WorkspaceType(p.output, p.handle)
           IN /\ \A i \in 1..Len(wsPending[p.handle]) : ~Scanned(wsPending[p.handle][i])
              /\ \A i \in 1..Len(p.before) :
                    Scanned(p.before[i]) =>
                       IF <<p.output, p.handle>> \in ev.active_spaces
                       THEN p.before[i] \in Range(p.batched)
                       ELSE p.before[i] \in Range(p.deferred)

C19_Witness ==
    /\ IsCommit /\ ev.reached = "end"
    /\ \E n \in 1..Len(ev.passes) :
          /\ ev.passes[n].deferred # <<>>
          /\ ev.passes[n].after # <<>>
          /\ wsPending[ev.passes[n].handle] = ev.passes[n].after

====
